---- MODULE Spec2Model ----
(***************************************************************************)
(* Model of app/ui-react/syndesis/src/modules/data/shared/                  *)
(* VirtualizationUtils.ts: the schema tree walk generateViewInfos, the      *)
(* synthesis generateViewEditorStates and the preview SQL getPreviewSql.   *)
(*                                                                         *)
(* JavaScript strings are sequences of one-character strings, so that      *)
(* concatenation, split and toLowerCase are computed and not assumed.      *)
(* JavaScript arrays that are shared by reference (the nodePath arrays)    *)
(* live in a heap, arrays, and are named by their index in it.             *)
(***************************************************************************)
EXTENDS Integers, Sequences, FiniteSets, TLC

\* ------------------------------------------------------------------ bounds
\* Largest number of SchemaNodes in a schema tree.
MaxNodes == 4

\* Largest number of '/'-separated segments of a source path given to
\* getPreviewSql.
MaxSegs == 3

\* Largest number of connections given to generateDvConnections.
MaxConns == 2

\* Largest number of source status records given to generateDvConnections.
MaxStatuses == 2

\* ----------------------------------------------------------------- strings
\* The string literals of the source and of the inputs, as character sequences.
Str_empty == << >>
Str_underscore == <<"_">>
Str_dot == <<".">>
Str_slash == <<"/">>
Str_connectionEq == <<"c","o","n","n","e","c","t","i","o","n","=">>
Str_tableEq == <<"t","a","b","l","e","=">>
Str_ALL == <<"A","L","L">>
Str_description == <<" ","d","e","s","c","r","i","p","t","i","o","n">>
Str_selectFrom == <<"S","E","L","E","C","T"," ","*"," ","F","R","O","M"," ">>
Str_semicolon == <<";">>
Str_undefined == <<"u","n","d","e","f","i","n","e","d">>
SCHEMA_MODEL_SUFFIX == <<"s","c","h","e","m","a","m","o","d","e","l">>

\* The JavaScript value undefined: not a string (no string has this element).
Undefined == <<"<undefined>">>

\* A null or absent SchemaNode reference.
NullNode == 0

\* What string concatenation makes of a value: undefined becomes 'undefined'.
ToStr(v) == IF v = Undefined THEN Str_undefined ELSE v

\* String.prototype.toLowerCase on the characters the inputs use.
LowerChar(c) ==
  CASE c = "A" -> "a"
    [] c = "B" -> "b"
    [] c = "C" -> "c"
    [] c = "P" -> "p"
    [] OTHER -> c

ToLowerCase(s) == [i \in 1..Len(s) |-> LowerChar(s[i])]

\* Array.prototype.findIndex(x => x === v) === -1 ? false : true
Contains(list, v) == \E i \in 1..Len(list) : list[i] = v

\* Index of the first occurrence of character c in s, 0 when there is none.
IndexOf(s, c) ==
  IF \E i \in 1..Len(s) : s[i] = c
  THEN CHOOSE i \in 1..Len(s) : s[i] = c /\ \A j \in 1..(i-1) : s[j] # c
  ELSE 0

\* String.prototype.split(c) for a one-character separator: the pieces between
\* ALL occurrences of c, empty pieces kept; ''.split(c) is [''].
RECURSIVE Split(_, _)
Split(s, c) ==
  LET k == IndexOf(s, c) IN
  IF k = 0 THEN << s >>
  ELSE << SubSeq(s, 1, k-1) >> \o Split(SubSeq(s, k+1, Len(s)), c)

\* arr[i] for a zero-based JavaScript index: undefined past the end.
At(arr, i) == IF i >= 0 /\ i < Len(arr) THEN arr[i+1] ELSE Undefined

\* ---------------------------------------------------------------- variables
VARIABLES
  nodes,              \* heap of SchemaNodes: node id -> its fields
  arrays,             \* heap of string[] objects: array id -> its elements
  stack,              \* call stack of generateViewInfos, innermost frame last
  viewInfos,          \* the ViewInfo[] out-parameter of generateViewInfos
  selectedViewNames,  \* argument of generateViewInfos
  existingViewNames,  \* argument of generateViewInfos
  phase,              \* where the caller of the tree functions stands
  serviceVdbName,     \* argument of generateViewEditorStates
  editorStates,       \* local editorStates of generateViewEditorStates
  k,                  \* position of its for..of loop over viewInfos
  sourcePaths,        \* viewDefinition.sourcePaths given to getPreviewSql
  sqlPc,              \* position inside getPreviewSql
  sqlConn,            \* what getConnectionName returned
  sqlNode,            \* what getNodeName returned
  sqlResult,          \* outcome of getPreviewSql: a returned string or a throw
  connections,        \* heap of Connection objects: connection id -> its fields
  conns,              \* argument of generateDvConnections: connection ids
  virtualizationsSourceStatuses,  \* argument of generateDvConnections
  selectedConn,       \* argument of generateDvConnections
  dvConns,            \* local dvConns of generateDvConnections: connection ids
  connPc,             \* position inside generateDvConnections
  connIdx             \* position of its for..of loop over conns

treeVars == << nodes, arrays, stack, viewInfos, selectedViewNames,
               existingViewNames, phase, serviceVdbName, editorStates, k >>
sqlVars == << sourcePaths, sqlPc, sqlConn, sqlNode, sqlResult >>
connVars == << connections, conns, virtualizationsSourceStatuses, selectedConn,
               dvConns, connPc, connIdx >>
vars == << nodes, arrays, stack, viewInfos, selectedViewNames,
           existingViewNames, phase, serviceVdbName, editorStates, k,
           sourcePaths, sqlPc, sqlConn, sqlNode, sqlResult,
           connections, conns, virtualizationsSourceStatuses, selectedConn,
           dvConns, connPc, connIdx >>

\* ------------------------------------------------------------ schema trees
Digits == <<"1","2","3","4","5","6","7","8","9">>

Str_root == <<"r","o","o","t">>
Str_conn == <<"c","o","n","n">>
Str_Pg == <<"P","g">>
Str_vdb1 == <<"v","d","b","1">>
Str_db == <<"d","b">>

\* name of node n: the root is 'root'; the others are 't1', 't2', ... or, in a
\* tree with repeated names, all 't1'.
NodeName(n, distinct) ==
  IF n = 1 THEN Str_root
  ELSE IF distinct THEN <<"t", Digits[n-1]>> ELSE <<"t", Digits[1]>>

\* path of a node as the introspection collaborator stores it: with its own
\* leading connection segment, or relative to the connection.
NodePathString(conn, name, full) ==
  IF full THEN Str_connectionEq \o conn \o Str_slash \o Str_tableEq \o name
  ELSE Str_tableEq \o name

\* The children of node n under the parent map par, in list order.
ChildrenOf(n, size, par) ==
  SelectSeq([i \in 1..size |-> i], LAMBDA i : i > 1 /\ par[i] = n)

\* The parent maps of the trees of `size` nodes rooted at node 1.
ParentMaps(size) ==
  { par \in [1..size -> 0..size] :
      /\ par[1] = 0
      /\ \A i \in 2..size : par[i] >= 1 /\ par[i] < i }

\* A heap of SchemaNodes holding one tree. In a sparse tree the root's children
\* start with a null entry and a leaf has no children field at all.
MakeNodes(size, par, q, distinct, conn, full, sparse) ==
  [ n \in 1..size |->
      LET kids == ChildrenOf(n, size, par)
          name == NodeName(n, distinct)
      IN [ name           |-> name,
           connectionName |-> conn,
           path           |-> NodePathString(conn, name, full),
           queryable      |-> q[n],
           hasChildren    |-> ~(sparse /\ kids = << >>),
           children       |-> IF sparse /\ n = 1 THEN <<NullNode>> \o kids
                              ELSE kids ] ]

\* The kinds of tree the introspection collaborator hands over: whether the
\* names are distinct, the connection, whether a node's path starts with its
\* own connection segment, whether the tree is sparse.
TreeStyles ==
  { [ distinct |-> TRUE,  conn |-> Str_conn, full |-> TRUE,  sparse |-> FALSE ],
    [ distinct |-> TRUE,  conn |-> Str_Pg,   full |-> FALSE, sparse |-> FALSE ],
    [ distinct |-> FALSE, conn |-> Str_conn, full |-> TRUE,  sparse |-> TRUE ] }

SchemaTrees ==
  UNION { { MakeNodes(size, par, q, st.distinct, st.conn, st.full, st.sparse) :
              par \in ParentMaps(size), q \in [1..size -> BOOLEAN],
              st \in TreeStyles } :
          size \in 1..MaxNodes }

Str_conn_t1 == Str_conn \o Str_underscore \o <<"t","1">>
Str_conn_t2 == Str_conn \o Str_underscore \o <<"t","2">>
Str_t1 == <<"t","1">>
Str_t2 == <<"t","2">>

\* The arguments of the outermost call: the caller's nodePath array, then
\* selectedViewNames and existingViewNames, which hold derived view names and
\* raw node names.
CallArguments ==
  { [ nodePath |-> << >>, selected |-> << >>, existing |-> << >> ],
    [ nodePath |-> << >>, selected |-> << Str_conn_t1, Str_t2 >>,
      existing |-> << Str_t1, Str_conn_t2 >> ],
    [ nodePath |-> << Str_db >>, selected |-> << Str_conn_t1, Str_t2 >>,
      existing |-> << Str_t1, Str_conn_t2 >> ] }

VdbNames == { Str_vdb1 }

\* ------------------------------------------------------- generateViewInfos
Top == stack[Len(stack)]

SetTop(f) == [stack EXCEPT ![Len(stack)] = f]

Pop == SubSeq(stack, 1, Len(stack) - 1)

Frame(node, nodePath) ==
  [ node |-> node, nodePath |-> nodePath, sourcePath |-> 0, pc |-> "enter", i |-> 0 ]

\* Faulty variant of ViewName: the raw node name, without the connection.
ViewName_RawName(n) == nodes[n].name

\* vwName = schemaNode.connectionName + '_' + schemaNode.name
ViewName(n) == nodes[n].connectionName \o Str_underscore \o nodes[n].name

\* Faulty variant of NewSourcePath: sourcePath is the nodePath array itself.
NewSourcePath_Alias(nodePath) == nodePath

\* const sourcePath: string[] = []: a fresh array, the next one of the heap.
NewSourcePath(nodePath) == Len(arrays) + 1

\* Faulty variant of CopyOf: the fresh array is left empty.
CopyOf_Empty(nodePath) == << >>

\* The copy loop: a fresh array holding the segments of nodePath.
CopyOf(nodePath) == arrays[nodePath]

\* Faulty variant of IsQueryable: the test is dropped.
IsQueryable_Always(n) == TRUE

\* schemaNode.queryable === true
IsQueryable(n) == nodes[n].queryable = TRUE

\* The ViewInfo literal; nodePath holds the sourcePath array itself.
MakeViewInfo(n, sourcePath) ==
  [ connectionName |-> nodes[n].connectionName,
    isUpdate       |-> Contains(existingViewNames, ViewName(n)),
    nodePath       |-> sourcePath,
    selected       |-> Contains(selectedViewNames, ViewName(n)),
    viewName       |-> ViewName(n),
    viewSourceNode |-> n ]

\* Faulty variant of ChildAt: the children are walked from the last to the first.
ChildAt_Reversed(n, i) == nodes[n].children[Len(nodes[n].children) - i + 1]

\* The child the for..of loop hands to the i-th recursive call.
ChildAt(n, i) == nodes[n].children[i]

\* schemaNode.children && schemaNode.children.length > 0, and the loop not over
HasMoreChildren(f) ==
  /\ nodes[f.node].hasChildren
  /\ Len(nodes[f.node].children) > 0
  /\ f.i <= Len(nodes[f.node].children)

\* A caller starts the walk at the root with its own nodePath array and an
\* empty output list.
CallGenerateViewInfos ==
  /\ phase = "idle"
  /\ \E args \in CallArguments :
       /\ arrays' = << args.nodePath >>
       /\ selectedViewNames' = args.selected
       /\ existingViewNames' = args.existing
  /\ stack' = << Frame(1, 1) >>
  /\ viewInfos' = << >>
  /\ phase' = "walk"
  /\ UNCHANGED << nodes, serviceVdbName, editorStates, k >>
  /\ UNCHANGED sqlVars
  /\ UNCHANGED connVars

WalkFrame == phase = "walk" /\ stack # << >>

FinishWalk(newStack) == IF newStack = << >> THEN "walked" ELSE "walk"

\* if (schemaNode) fails: the call returns at once.
SkipAbsentNode ==
  /\ WalkFrame
  /\ Top.pc = "enter"
  /\ Top.node = NullNode
  /\ stack' = Pop
  /\ phase' = FinishWalk(Pop)
  /\ UNCHANGED << nodes, arrays, viewInfos, selectedViewNames, existingViewNames,
                  serviceVdbName, editorStates, k >>
  /\ UNCHANGED sqlVars
  /\ UNCHANGED connVars

\* const sourcePath = []; for (const seg of nodePath) sourcePath.push(seg)
CopyNodePath ==
  /\ WalkFrame
  /\ Top.pc = "enter"
  /\ Top.node # NullNode
  /\ arrays' = Append(arrays, CopyOf(Top.nodePath))
  /\ stack' = SetTop([Top EXCEPT !.sourcePath = NewSourcePath(Top.nodePath),
                              !.pc = "emit"])
  /\ UNCHANGED << nodes, viewInfos, selectedViewNames, existingViewNames, phase,
                  serviceVdbName, editorStates, k >>
  /\ UNCHANGED sqlVars
  /\ UNCHANGED connVars

\* if (schemaNode.queryable === true) { ...; viewInfos.push(view) }
EmitViewInfo ==
  /\ WalkFrame
  /\ Top.pc = "emit"
  /\ viewInfos' = IF IsQueryable(Top.node)
                  THEN Append(viewInfos, MakeViewInfo(Top.node, Top.sourcePath))
                  ELSE viewInfos
  /\ stack' = SetTop([Top EXCEPT !.pc = "push"])
  /\ UNCHANGED << nodes, arrays, selectedViewNames, existingViewNames, phase,
                  serviceVdbName, editorStates, k >>
  /\ UNCHANGED sqlVars
  /\ UNCHANGED connVars

\* sourcePath.push(schemaNode.name)
PushNodeName ==
  /\ WalkFrame
  /\ Top.pc = "push"
  /\ arrays' = [arrays EXCEPT ![Top.sourcePath] = Append(@, nodes[Top.node].name)]
  /\ stack' = SetTop([Top EXCEPT !.pc = "children", !.i = 1])
  /\ UNCHANGED << nodes, viewInfos, selectedViewNames, existingViewNames, phase,
                  serviceVdbName, editorStates, k >>
  /\ UNCHANGED sqlVars
  /\ UNCHANGED connVars

\* for (const childNode of schemaNode.children) generateViewInfos(..., sourcePath, ...)
CallChild ==
  /\ WalkFrame
  /\ Top.pc = "children"
  /\ HasMoreChildren(Top)
  /\ stack' = Append(SetTop([Top EXCEPT !.i = @ + 1]),
                     Frame(ChildAt(Top.node, Top.i), Top.sourcePath))
  /\ UNCHANGED << nodes, arrays, viewInfos, selectedViewNames, existingViewNames,
                  phase, serviceVdbName, editorStates, k >>
  /\ UNCHANGED sqlVars
  /\ UNCHANGED connVars

\* The children are done (or there are none): the call returns.
ReturnFromNode ==
  /\ WalkFrame
  /\ Top.pc = "children"
  /\ ~HasMoreChildren(Top)
  /\ stack' = Pop
  /\ phase' = FinishWalk(Pop)
  /\ UNCHANGED << nodes, arrays, viewInfos, selectedViewNames, existingViewNames,
                  serviceVdbName, editorStates, k >>
  /\ UNCHANGED sqlVars
  /\ UNCHANGED connVars

\* ------------------------------------------------- generateViewEditorStates
\* Faulty variant of SourcePathOf: the node's path alone, nothing prepended.
SourcePathOf_NodePathOnly(viewInfo) == nodes[viewInfo.viewSourceNode].path

\* 'connection=' + viewInfo.connectionName + '/' + viewInfo.viewSourceNode.path
SourcePathOf(viewInfo) ==
  Str_connectionEq \o viewInfo.connectionName \o Str_slash
    \o nodes[viewInfo.viewSourceNode].path

\* The single projected column.
ProjCol == [ name |-> Str_ALL, selected |-> TRUE, type |-> Str_ALL ]

MakeViewDefinition(viewInfo) ==
  [ compositions      |-> << >>,
    isComplete        |-> TRUE,
    keng__description |-> viewInfo.viewName \o Str_description,
    projectedColumns  |-> << ProjCol >>,
    sourcePaths       |-> << SourcePathOf(viewInfo) >>,
    viewName          |-> viewInfo.viewName ]

\* Faulty variant of EditorStateId: the '.' is missing.
EditorStateId_NoDot(vdbName, viewInfo) == vdbName \o viewInfo.viewName

\* id: serviceVdbName + '.' + viewInfo.viewName
EditorStateId(vdbName, viewInfo) == vdbName \o Str_dot \o viewInfo.viewName

MakeEditorState(vdbName, viewInfo) ==
  [ id |-> EditorStateId(vdbName, viewInfo),
    viewDefinition |-> MakeViewDefinition(viewInfo) ]

\* The caller hands the ViewInfos of the finished walk to the synthesis.
CallGenerateViewEditorStates ==
  /\ phase = "walked"
  /\ \E name \in VdbNames : serviceVdbName' = name
  /\ editorStates' = << >>
  /\ k' = 1
  /\ phase' = "synth"
  /\ UNCHANGED << nodes, arrays, stack, viewInfos, selectedViewNames,
                  existingViewNames >>
  /\ UNCHANGED sqlVars
  /\ UNCHANGED connVars

\* One round of for (const viewInfo of viewInfos) { ...; editorStates.push(editorState) }
SynthesizeEditorState ==
  /\ phase = "synth"
  /\ k <= Len(viewInfos)
  /\ editorStates' = Append(editorStates, MakeEditorState(serviceVdbName, viewInfos[k]))
  /\ k' = k + 1
  /\ UNCHANGED << nodes, arrays, stack, viewInfos, selectedViewNames,
                  existingViewNames, phase, serviceVdbName >>
  /\ UNCHANGED sqlVars
  /\ UNCHANGED connVars

\* return editorStates
ReturnEditorStates ==
  /\ phase = "synth"
  /\ k > Len(viewInfos)
  /\ phase' = "done"
  /\ UNCHANGED << nodes, arrays, stack, viewInfos, selectedViewNames,
                  existingViewNames, serviceVdbName, editorStates, k >>
  /\ UNCHANGED sqlVars
  /\ UNCHANGED connVars

\* ----------------------------------------------------------- getPreviewSql
\* A thrown TypeError: what undefined.toLowerCase() ends in.
TypeError == <<"T","y","p","e","E","r","r","o","r">>

Returned(str) == [ kind |-> "return", value |-> str ]

Thrown(err) == [ kind |-> "throw", value |-> err ]

\* The condition if (sourcePath): undefined and '' are falsy.
Truthy(v) == v # Undefined /\ v # Str_empty

\* Faulty variant of FirstSourcePath: the last source path is read.
FirstSourcePath_Last(paths) == At(paths, Len(paths) - 1)

\* const sourcePath = viewDefinition.sourcePaths[0]
FirstSourcePath(paths) == At(paths, 0)

\* sourcePath.split('/')[0].split('=')[1]
GetConnectionName(sourcePath) ==
  At(Split(At(Split(sourcePath, "/"), 0), "="), 1)

\* segments[segments.length - 1].split('=')[1]
GetNodeName(sourcePath) ==
  LET segments == Split(sourcePath, "/")
  IN At(Split(At(segments, Len(segments) - 1), "="), 1)

\* connectionName.toLowerCase() + SCHEMA_MODEL_SUFFIX + '.' + nodeName
PreviewTableName(connectionName, nodeName) ==
  ToLowerCase(connectionName) \o SCHEMA_MODEL_SUFFIX \o Str_dot \o ToStr(nodeName)

\* 'SELECT * FROM ' + tableName + ';'
PreviewSqlText(tableName) == Str_selectFrom \o tableName \o Str_semicolon

\* The source paths the callers hand over: '/'-joined segments, well-formed
\* (key=value, the value possibly holding a '=' itself) or not.
SegKeys == { Str_empty, <<"k">> }
SegValues == { Str_empty, <<"A">>, <<"A","b">>, <<"A","=","b">> }
WellFormedSegments == { key \o <<"=">> \o val : key \in SegKeys, val \in SegValues }
MalformedSegments == { Str_empty, <<"A","b">> }
Segments == WellFormedSegments \cup MalformedSegments

RECURSIVE JoinSegments(_)
JoinSegments(segs) ==
  IF Len(segs) = 1 THEN segs[1]
  ELSE segs[1] \o Str_slash \o JoinSegments(Tail(segs))

SegmentLists == UNION { [1..n -> Segments] : n \in 1..MaxSegs }

\* A path after the first one of a multi-source view.
Str_otherPath == <<"k","=","A","b","/","k","=","A">>

SourcePathLists ==
  { << >> } \cup
  { << JoinSegments(segs) >> \o rest :
      segs \in SegmentLists, rest \in { << >>, << Str_otherPath >> } }

\* A caller asks for the preview SQL of a view definition.
CallGetPreviewSql ==
  /\ sqlPc = "idle"
  /\ \E paths \in SourcePathLists : sourcePaths' = paths
  /\ sqlPc' = "start"
  /\ UNCHANGED << sqlConn, sqlNode, sqlResult >>
  /\ UNCHANGED treeVars
  /\ UNCHANGED connVars

\* if (sourcePath) fails: return ''
ReturnEmptySql ==
  /\ sqlPc = "start"
  /\ ~Truthy(FirstSourcePath(sourcePaths))
  /\ sqlResult' = Returned(Str_empty)
  /\ sqlPc' = "done"
  /\ UNCHANGED << sourcePaths, sqlConn, sqlNode >>
  /\ UNCHANGED treeVars
  /\ UNCHANGED connVars

\* getPreviewTableName evaluates getConnectionName(sourcePath) first
CallGetConnectionName ==
  /\ sqlPc = "start"
  /\ Truthy(FirstSourcePath(sourcePaths))
  /\ sqlConn' = GetConnectionName(FirstSourcePath(sourcePaths))
  /\ sqlPc' = "lower"
  /\ UNCHANGED << sourcePaths, sqlNode, sqlResult >>
  /\ UNCHANGED treeVars
  /\ UNCHANGED connVars

\* .toLowerCase() of undefined throws; nothing catches it
ThrowTypeError ==
  /\ sqlPc = "lower"
  /\ sqlConn = Undefined
  /\ sqlResult' = Thrown(TypeError)
  /\ sqlPc' = "done"
  /\ UNCHANGED << sourcePaths, sqlConn, sqlNode >>
  /\ UNCHANGED treeVars
  /\ UNCHANGED connVars

\* ... + getNodeName(sourcePath)
CallGetNodeName ==
  /\ sqlPc = "lower"
  /\ sqlConn # Undefined
  /\ sqlNode' = GetNodeName(FirstSourcePath(sourcePaths))
  /\ sqlPc' = "concat"
  /\ UNCHANGED << sourcePaths, sqlConn, sqlResult >>
  /\ UNCHANGED treeVars
  /\ UNCHANGED connVars

\* return 'SELECT * FROM ' + getPreviewTableName(sourcePath) + ';'
ReturnPreviewSql ==
  /\ sqlPc = "concat"
  /\ sqlResult' = Returned(PreviewSqlText(PreviewTableName(sqlConn, sqlNode)))
  /\ sqlPc' = "done"
  /\ UNCHANGED << sourcePaths, sqlConn, sqlNode >>
  /\ UNCHANGED treeVars
  /\ UNCHANGED connVars

\* ---------------------------------------------------- generateDvConnections
\* The names of connections and of status records; '===' tells 'c1' from 'C1'.
ConnectionNames == { "c1", "C1" }
SourceNames == { "c1", "c2" }

\* options of a connection as a set of <<key, value>> pairs; a connection
\* that has none yet holds the empty set.
NoOptions == { }
PriorOptions ==
  { NoOptions,
    { <<"dvStatus", "ACTIVE">>, <<"dvSelected", "SELECTED">>, <<"other", "x">> } }

\* The Connection objects, by their fields.
ConnectionObjects ==
  [ name : ConnectionNames, description : { "d" }, options : PriorOptions ]

\* (vdbState, schemaState) of a status record: both ACTIVE, or one only.
SourceStates == { <<"ACTIVE", "ACTIVE">>, <<"ACTIVE", "FAILED">>, <<"LOADING", "ACTIVE">> }

SourceStatusRecords ==
  { [ sourceName |-> name, vdbState |-> st[1], schemaState |-> st[2] ] :
      name \in SourceNames, st \in SourceStates }

SourceStatusLists == UNION { [1..n -> SourceStatusRecords] : n \in 0..MaxStatuses }

ConnectionHeaps == UNION { [1..n -> ConnectionObjects] : n \in 0..MaxConns }

SelectedNames == { "c1", "" }

\* Faulty variant of FindStatus: the last matching record instead of the first.
FindStatus_Last(statuses, name) ==
  IF \E i \in 1..Len(statuses) : statuses[i].sourceName = name
  THEN statuses[CHOOSE i \in 1..Len(statuses) :
                  /\ statuses[i].sourceName = name
                  /\ \A j \in (i+1)..Len(statuses) : statuses[j].sourceName # name]
  ELSE [ sourceName |-> "<undefined>", vdbState |-> "<undefined>",
         schemaState |-> "<undefined>" ]

\* What find returns when no record matches: undefined, which is no record of
\* any list (no record has these field values).
UndefinedStatus ==
  [ sourceName |-> "<undefined>", vdbState |-> "<undefined>", schemaState |-> "<undefined>" ]

\* virtualizationsSourceStatuses.find(virtStatus => virtStatus.sourceName === name):
\* the first such record, undefined when there is none.
FindStatus(statuses, name) ==
  IF \E i \in 1..Len(statuses) : statuses[i].sourceName = name
  THEN statuses[CHOOSE i \in 1..Len(statuses) :
                  /\ statuses[i].sourceName = name
                  /\ \A j \in 1..(i-1) : statuses[j].sourceName # name]
  ELSE UndefinedStatus

\* virtSrcStatus && vdbState === 'ACTIVE' && schemaState === 'ACTIVE'
ConnStatus(virtSrcStatus) ==
  IF /\ virtSrcStatus # UndefinedStatus
     /\ virtSrcStatus.vdbState = "ACTIVE"
     /\ virtSrcStatus.schemaState = "ACTIVE"
  THEN "ACTIVE" ELSE "INACTIVE"

\* Faulty variant of SelectionState: whether anything is selected at all.
SelectionState_AnySelected(name, selected) ==
  IF selected # "" THEN "SELECTED" ELSE "NOTSELECTED"

\* conn.name === selectedConn
SelectionState(name, selected) ==
  IF name = selected THEN "SELECTED" ELSE "NOTSELECTED"

\* { dvStatus: connStatus, dvSelected: selectionState }
DvOptions(connStatus, selectionState) ==
  { <<"dvStatus", connStatus>>, <<"dvSelected", selectionState>> }

\* A caller hands over its connections, the statuses and the selected name.
CallGenerateDvConnections ==
  /\ connPc = "idle"
  /\ \E heap \in ConnectionHeaps, statuses \in SourceStatusLists,
        selected \in SelectedNames :
       /\ connections' = heap
       /\ conns' = [ i \in 1..Len(heap) |-> i ]
       /\ virtualizationsSourceStatuses' = statuses
       /\ selectedConn' = selected
  /\ dvConns' = << >>
  /\ connIdx' = 1
  /\ connPc' = "loop"
  /\ UNCHANGED treeVars
  /\ UNCHANGED sqlVars

\* One round of for (const conn of conns) { ...; conn.options = {...}; dvConns.push(conn) }
AnnotateConnection ==
  /\ connPc = "loop"
  /\ connIdx <= Len(conns)
  /\ LET conn == conns[connIdx]
         virtSrcStatus == FindStatus(virtualizationsSourceStatuses, connections[conn].name)
     IN /\ connections' =
             [connections EXCEPT ![conn].options =
                DvOptions(ConnStatus(virtSrcStatus),
                          SelectionState(connections[conn].name, selectedConn))]
        /\ dvConns' = Append(dvConns, conn)
  /\ connIdx' = connIdx + 1
  /\ UNCHANGED << conns, virtualizationsSourceStatuses, selectedConn, connPc >>
  /\ UNCHANGED treeVars
  /\ UNCHANGED sqlVars

\* return dvConns
ReturnDvConnections ==
  /\ connPc = "loop"
  /\ connIdx > Len(conns)
  /\ connPc' = "done"
  /\ UNCHANGED << connections, conns, virtualizationsSourceStatuses, selectedConn,
                  dvConns, connIdx >>
  /\ UNCHANGED treeVars
  /\ UNCHANGED sqlVars

\* ------------------------------------------------------------ specification
SqlIdle ==
  /\ sourcePaths = << >>
  /\ sqlPc = "idle"
  /\ sqlConn = Undefined
  /\ sqlNode = Undefined
  /\ sqlResult = [ kind |-> "none", value |-> Str_empty ]

ConnIdle ==
  /\ connections = << >>
  /\ conns = << >>
  /\ virtualizationsSourceStatuses = << >>
  /\ selectedConn = ""
  /\ dvConns = << >>
  /\ connPc = "idle"
  /\ connIdx = 0

Init ==
  /\ nodes \in SchemaTrees
  /\ arrays = << >>
  /\ stack = << >>
  /\ viewInfos = << >>
  /\ selectedViewNames = << >>
  /\ existingViewNames = << >>
  /\ phase = "idle"
  /\ serviceVdbName = Str_empty
  /\ editorStates = << >>
  /\ k = 0
  /\ SqlIdle
  /\ ConnIdle

Next ==
  \/ CallGenerateViewInfos
  \/ SkipAbsentNode
  \/ CopyNodePath
  \/ EmitViewInfo
  \/ PushNodeName
  \/ CallChild
  \/ ReturnFromNode
  \/ CallGenerateViewEditorStates
  \/ SynthesizeEditorState
  \/ ReturnEditorStates

Spec == Init /\ [][Next]_vars

\* getPreviewSql on its own, for every source path list.
InitSql ==
  /\ nodes = << >>
  /\ arrays = << >>
  /\ stack = << >>
  /\ viewInfos = << >>
  /\ selectedViewNames = << >>
  /\ existingViewNames = << >>
  /\ phase = "idle"
  /\ serviceVdbName = Str_empty
  /\ editorStates = << >>
  /\ k = 0
  /\ SqlIdle
  /\ ConnIdle

NextSql ==
  \/ CallGetPreviewSql
  \/ ReturnEmptySql
  \/ CallGetConnectionName
  \/ ThrowTypeError
  \/ CallGetNodeName
  \/ ReturnPreviewSql

SpecSql == InitSql /\ [][NextSql]_vars

\* generateDvConnections on its own.
InitConn == InitSql

NextConn ==
  \/ CallGenerateDvConnections
  \/ AnnotateConnection
  \/ ReturnDvConnections

SpecConn == InitConn /\ [][NextConn]_vars

\* The synthesis followed by the preview: generateViewInfos and
\* generateViewEditorStates on a one-node tree whose node has any path, then
\* getPreviewSql on the synthesized view definition.
ComposeConnNames == { Str_conn, Str_Pg, <<"P","/","g">> }

ComposeTrees ==
  { << [ name           |-> Str_t1,
         connectionName |-> conn,
         path           |-> JoinSegments(segs),
         queryable      |-> TRUE,
         hasChildren    |-> TRUE,
         children       |-> << >> ] >> :
      conn \in ComposeConnNames, segs \in SegmentLists }

\* A caller asks for the preview SQL of a synthesized view definition.
PreviewEditorState ==
  /\ phase = "done"
  /\ sqlPc = "idle"
  /\ \E i \in 1..Len(editorStates) :
       sourcePaths' = editorStates[i].viewDefinition.sourcePaths
  /\ sqlPc' = "start"
  /\ UNCHANGED << sqlConn, sqlNode, sqlResult >>
  /\ UNCHANGED treeVars
  /\ UNCHANGED connVars

InitCompose ==
  /\ nodes \in ComposeTrees
  /\ arrays = << >>
  /\ stack = << >>
  /\ viewInfos = << >>
  /\ selectedViewNames = << >>
  /\ existingViewNames = << >>
  /\ phase = "idle"
  /\ serviceVdbName = Str_empty
  /\ editorStates = << >>
  /\ k = 0
  /\ SqlIdle
  /\ ConnIdle

\* A one-node tree has no child to call and no absent node to skip, and a
\* synthesized source path starts with 'connection=', so that getPreviewSql
\* neither returns '' nor throws: those steps are never enabled here.
NextCompose ==
  \/ CallGenerateViewInfos
  \/ CopyNodePath
  \/ EmitViewInfo
  \/ PushNodeName
  \/ ReturnFromNode
  \/ CallGenerateViewEditorStates
  \/ SynthesizeEditorState
  \/ ReturnEditorStates
  \/ PreviewEditorState
  \/ CallGetConnectionName
  \/ CallGetNodeName
  \/ ReturnPreviewSql

SpecCompose == InitCompose /\ [][NextCompose]_vars

\* ------------------------------------------------- the tree, as a caller sees it
\* generateViewInfos has returned to its caller.
WalkReturned == phase \in { "walked", "synth", "done" }

NodeIds == DOMAIN nodes

\* The node whose children list holds n (0 for the root).
ParentOf(n) ==
  IF \E m \in NodeIds : \E i \in 1..Len(nodes[m].children) : nodes[m].children[i] = n
  THEN CHOOSE m \in NodeIds : \E i \in 1..Len(nodes[m].children) : nodes[m].children[i] = n
  ELSE 0

\* The strict ancestors of n, from the root down.
RECURSIVE AncestorsOf(_)
AncestorsOf(n) ==
  IF ParentOf(n) = 0 THEN << >> ELSE Append(AncestorsOf(ParentOf(n)), ParentOf(n))

AncestorNames(n) == [ i \in 1..Len(AncestorsOf(n)) |-> nodes[AncestorsOf(n)[i]].name ]

\* Position of child c in the children list of its parent.
ChildPosition(c) ==
  CHOOSE i \in 1..Len(nodes[ParentOf(c)].children) : nodes[ParentOf(c)].children[i] = c

\* Every node has its own (connectionName, name) pair.
UniqueNames ==
  \A m, n \in NodeIds :
    (nodes[m].connectionName = nodes[n].connectionName /\ nodes[m].name = nodes[n].name)
      => m = n

\* The indexes of the ViewInfos made from node n.
ViewInfosOf(n) == { j \in 1..Len(viewInfos) : viewInfos[j].viewSourceNode = n }

\* The elements of the array a ViewInfo's nodePath refers to.
NodePathOf(viewInfo) == arrays[viewInfo.nodePath]

\* The tree of the end-to-end example: a non-queryable 'root' with the one
\* queryable child 't1' of connection 'conn'.
ExampleTree ==
  /\ NodeIds = 1..2
  /\ nodes[1].name = Str_root /\ nodes[1].queryable = FALSE
  /\ nodes[2].name = Str_t1 /\ nodes[2].queryable = TRUE
  /\ nodes[2].connectionName = Str_conn
  /\ nodes[1].children = << 2 >>

\* ------------------------------------------------------------------ claims
\* C1 (as claimed): after generateViewInfos returns, every ViewInfo's nodePath
\* is the initial nodePath argument followed by the names of the node's strict
\* ancestors, without the node's own name at its end.
C1_NodePathIsAncestorPath ==
  WalkReturned =>
    \A j \in 1..Len(viewInfos) :
      NodePathOf(viewInfos[j]) = arrays[1] \o AncestorNames(viewInfos[j].viewSourceNode)

\* C2: in a tree whose nodes have unique (connectionName, name) pairs, the
\* returned list holds exactly one ViewInfo for each queryable node and none
\* for a non-queryable node, whatever the node's ancestors are.
C2_OneViewInfoPerQueryableNode ==
  (WalkReturned /\ UniqueNames) =>
    \A n \in NodeIds :
      /\ Cardinality(ViewInfosOf(n)) = IF nodes[n].queryable THEN 1 ELSE 0
      /\ Cardinality({ j \in 1..Len(viewInfos) :
                         viewInfos[j].viewName
                           = nodes[n].connectionName \o <<"_">> \o nodes[n].name })
           = IF nodes[n].queryable THEN 1 ELSE 0

\* C2 witness: a returned walk over a unique-named tree in which a queryable
\* node below two non-queryable ancestors has its ViewInfo.
C2_Witness ==
  /\ WalkReturned /\ UniqueNames
  /\ \E n \in NodeIds :
       /\ Len(AncestorsOf(n)) >= 2
       /\ \A i \in 1..Len(AncestorsOf(n)) : ~nodes[AncestorsOf(n)[i]].queryable
       /\ nodes[n].queryable
       /\ Cardinality(ViewInfosOf(n)) = 1
       /\ Len(viewInfos) = 1

\* C3: the output is in pre-order: a queryable parent's ViewInfo comes before
\* its queryable child's, and every ViewInfo of the subtree of an earlier
\* sibling comes before every ViewInfo of the subtree of a later sibling.
C3_PreOrder ==
  WalkReturned =>
    \A a, b \in 1..Len(viewInfos) :
      LET na == viewInfos[a].viewSourceNode
          nb == viewInfos[b].viewSourceNode
          \* the nodes from the root down to na, and down to nb
          pa == Append(AncestorsOf(na), na)
          pb == Append(AncestorsOf(nb), nb)
      IN /\ (ParentOf(nb) = na) => a < b
         \* pa[i] and pb[i] are siblings, pa[i] the earlier: na is in the
         \* subtree of the one and nb in the subtree of the other
         /\ \A i \in 2..Len(pa) :
              ( /\ i <= Len(pb)
                /\ pa[i-1] = pb[i-1] /\ pa[i] # pb[i]
                /\ ChildPosition(pa[i]) < ChildPosition(pb[i]) ) => a < b

\* C3 witness: a returned walk in which a queryable parent and child were both
\* emitted, and an earlier sibling's grandchild before a later sibling.
C3_Witness ==
  /\ WalkReturned
  /\ \E a, b, c \in 1..Len(viewInfos) :
       LET na == viewInfos[a].viewSourceNode
           nb == viewInfos[b].viewSourceNode
           nc == viewInfos[c].viewSourceNode
       IN /\ ParentOf(nb) = na /\ a < b
          /\ ParentOf(na) # 0 /\ ParentOf(nc) = ParentOf(na)
          /\ ChildPosition(na) < ChildPosition(nc)
          /\ b < c

C5_FlagsByDerivedViewName ==
  \A j \in 1..Len(viewInfos) :
    LET n == viewInfos[j].viewSourceNode
        derived == nodes[n].connectionName \o <<"_">> \o nodes[n].name
    IN /\ viewInfos[j].viewName = derived
       /\ viewInfos[j].connectionName = nodes[n].connectionName
       /\ viewInfos[j].selected
            = (\E i \in 1..Len(selectedViewNames) : selectedViewNames[i] = derived)
       /\ viewInfos[j].isUpdate
            = (\E i \in 1..Len(existingViewNames) : existingViewNames[i] = derived)

\* C5 witness: a ViewInfo whose raw node name is in selectedViewNames and whose
\* derived name is only in existingViewNames: not selected, but an update;
\* beside one that is selected and no update.
C5_Witness ==
  \E j, h \in 1..Len(viewInfos) :
    /\ \E i \in 1..Len(selectedViewNames) :
         selectedViewNames[i] = nodes[viewInfos[j].viewSourceNode].name
    /\ ~viewInfos[j].selected /\ viewInfos[j].isUpdate
    /\ viewInfos[h].selected /\ ~viewInfos[h].isUpdate

\* C6: generateViewEditorStates returns one ViewEditorState per ViewInfo, in the
\* same order: the i-th has id = serviceVdbName + '.' + viewInfos[i].viewName
\* and viewDefinition.viewName = viewInfos[i].viewName; ViewInfos with the same
\* viewName are not merged.
C6_EditorStatesInOrder ==
  phase = "done" =>
    /\ Len(editorStates) = Len(viewInfos)
    /\ \A i \in 1..Len(editorStates) :
         /\ editorStates[i].id = serviceVdbName \o <<".">> \o viewInfos[i].viewName
         /\ editorStates[i].viewDefinition.viewName = viewInfos[i].viewName

\* C6 witness: the synthesis has returned three or more states, the last two of
\* them for ViewInfos of the same viewName, after one for another viewName.
C6_Witness ==
  /\ phase = "done"
  /\ \E i, j, h \in 1..Len(editorStates) :
       /\ i < j /\ j < h
       /\ viewInfos[i].viewName # viewInfos[j].viewName
       /\ viewInfos[j].viewName = viewInfos[h].viewName
       /\ editorStates[j].id = editorStates[h].id

\* C7: every synthesized ViewDefinition has the one source path 'connection=' +
\* connectionName + '/' + the node's path as stored, the one projected column
\* ALL/ALL/selected, no compositions and isComplete; the node path
\* 'connection=conn/table=t1' of connection 'conn' gives
\* 'connection=conn/connection=conn/table=t1'.
C7_OneSourcePathOneColumn ==
  \A i \in 1..Len(editorStates) :
    LET vd == editorStates[i].viewDefinition
        node == nodes[viewInfos[i].viewSourceNode]
    IN /\ Len(vd.sourcePaths) = 1
       /\ vd.sourcePaths[1]
            = <<"c","o","n","n","e","c","t","i","o","n","=">>
                \o viewInfos[i].connectionName \o <<"/">> \o node.path
       /\ vd.projectedColumns
            = << [ name |-> <<"A","L","L">>, type |-> <<"A","L","L">>, selected |-> TRUE ] >>
       /\ vd.compositions = << >>
       /\ vd.isComplete = TRUE
       /\ ( /\ viewInfos[i].connectionName = <<"c","o","n","n">>
            /\ node.path = <<"c","o","n","n","e","c","t","i","o","n","=","c","o","n","n",
                             "/","t","a","b","l","e","=","t","1">> )
          => vd.sourcePaths[1]
               = <<"c","o","n","n","e","c","t","i","o","n","=","c","o","n","n","/",
                   "c","o","n","n","e","c","t","i","o","n","=","c","o","n","n","/",
                   "t","a","b","l","e","=","t","1">>

\* C7 witness: the example tree's ViewInfo, whose node has the path
\* 'connection=conn/table=t1', has been synthesized with id 'vdb1.conn_t1'.
C7_Witness ==
  /\ phase = "done" /\ ExampleTree /\ Len(editorStates) = 1
  /\ nodes[2].path = <<"c","o","n","n","e","c","t","i","o","n","=","c","o","n","n",
                       "/","t","a","b","l","e","=","t","1">>
  /\ editorStates[1].id = <<"v","d","b","1",".","c","o","n","n","_","t","1">>

\* ------------------------------------------------------ claims on getPreviewSql
\* The table name the claims speak of, from one source path: the lower-cased
\* connection name, 'schemamodel', '.', the node name.
TableNameFrom(sourcePath) ==
  ToLowerCase(ToStr(GetConnectionName(sourcePath)))
    \o <<"s","c","h","e","m","a","m","o","d","e","l",".">>
    \o ToStr(GetNodeName(sourcePath))

SelectFrom(tableName) ==
  <<"S","E","L","E","C","T"," ","*"," ","F","R","O","M"," ">> \o tableName \o <<";">>

\* C8 (as claimed): getPreviewSql returns '' for empty sourcePaths and, for
\* every non-empty sourcePaths, 'SELECT * FROM ' + tableName + ';' with the
\* table name of sourcePaths[0].
C8_SelectForEveryNonEmptyList ==
  sqlPc = "done" =>
    IF sourcePaths = << >>
    THEN sqlResult = [ kind |-> "return", value |-> << >> ]
    ELSE sqlResult = [ kind |-> "return", value |-> SelectFrom(TableNameFrom(sourcePaths[1])) ]

\* C8 (amended): getPreviewSql returns '' if sourcePaths is empty or its first
\* element is the empty string; otherwise the outcome is decided by
\* sourcePaths[0] alone: a TypeError if its first segment has no '=', and else
\* the string 'SELECT * FROM ' + tableName + ';' with the table name of
\* sourcePaths[0].
C8_PreviewSqlOfFirstPath ==
  sqlPc = "done" =>
    IF sourcePaths = << >> \/ sourcePaths[1] = << >>
    THEN sqlResult = [ kind |-> "return", value |-> << >> ]
    ELSE IF \A i \in 1..Len(Split(sourcePaths[1], "/")[1]) :
              Split(sourcePaths[1], "/")[1][i] # "="
         THEN sqlResult.kind = "throw"
         ELSE sqlResult
                = [ kind |-> "return", value |-> SelectFrom(TableNameFrom(sourcePaths[1])) ]

\* C8 witness: the call has returned a SELECT for a list of two source paths
\* whose first path differs from the second in connection and node name.
C8_Witness ==
  /\ sqlPc = "done"
  /\ Len(sourcePaths) = 2
  /\ sqlResult.kind = "return"
  /\ sqlResult.value # << >>
  /\ GetConnectionName(sourcePaths[1]) # GetConnectionName(sourcePaths[2])
  /\ GetNodeName(sourcePaths[1]) # GetNodeName(sourcePaths[2])

\* The value of a key=value segment: everything after its first '='.
ValueOfSegment(seg) == SubSeq(seg, IndexOf(seg, "=") + 1, Len(seg))

\* Every '/'-separated segment of the path has a '='.
WellFormedPath(path) ==
  \A i \in 1..Len(Split(path, "/")) : IndexOf(Split(path, "/")[i], "=") # 0

\* C9 (as claimed): for a well-formed path the extracted connection name is the
\* value of the first segment and the extracted node name the value of the last
\* segment, a value being everything after the segment's first '='.
C9_ValuesOfFirstAndLastSegment ==
  (sqlPc \in { "concat", "done" } /\ sourcePaths # << >> /\ sourcePaths[1] # << >>
     /\ WellFormedPath(sourcePaths[1])) =>
    LET segments == Split(sourcePaths[1], "/")
    IN /\ sqlConn = ValueOfSegment(segments[1])
       /\ sqlNode = ValueOfSegment(segments[Len(segments)])

\* C10 (as claimed): getPreviewSql never ends in an exception; for a malformed
\* first source path it still returns a string.
C10_NeverThrows ==
  sqlPc = "done" => sqlResult.kind = "return"

\* ---------------------------------------------- claims on generateDvConnections
\* The value options holds under key, as a set: empty when the key is absent.
OptionValues(options, key) == { pair[2] : pair \in { q \in options : q[1] = key } }

\* C11: an annotated connection has dvStatus ACTIVE iff the first status record
\* whose sourceName is the connection's name exists and has vdbState and
\* schemaState both 'ACTIVE'; in every other case dvStatus is INACTIVE.
C11_ActiveIffFirstMatchActive ==
  \A d \in 1..Len(dvConns) :
    LET conn == connections[dvConns[d]]
        statuses == virtualizationsSourceStatuses
        firstMatchActive ==
          \E i \in 1..Len(statuses) :
            /\ statuses[i].sourceName = conn.name
            /\ \A j \in 1..(i-1) : statuses[j].sourceName # conn.name
            /\ statuses[i].vdbState = "ACTIVE"
            /\ statuses[i].schemaState = "ACTIVE"
    IN OptionValues(conn.options, "dvStatus")
         = IF firstMatchActive THEN { "ACTIVE" } ELSE { "INACTIVE" }

\* C11 witness: the call has returned; connection 'c1' is INACTIVE although the
\* second record of its name is fully active, because the first record of its
\* name has one state ACTIVE only.
C11_Witness ==
  /\ connPc = "done"
  /\ Len(dvConns) = 2
  /\ Len(virtualizationsSourceStatuses) = 2
  /\ virtualizationsSourceStatuses[1].sourceName = "c1"
  /\ virtualizationsSourceStatuses[1] # virtualizationsSourceStatuses[2]
  /\ virtualizationsSourceStatuses[2]
       = [ sourceName |-> "c1", vdbState |-> "ACTIVE", schemaState |-> "ACTIVE" ]
  /\ connections[dvConns[1]].name = "c1"
  /\ <<"dvStatus", "INACTIVE">> \in connections[dvConns[1]].options

\* C12: generateDvConnections returns the same connection objects in the same
\* order and number; each one's options is replaced by the two derived flags,
\* dvSelected being SELECTED iff its name equals selectedConn exactly and
\* NOTSELECTED otherwise; no other field of a connection ever changes.
C12_SameObjectsAnnotated ==
  /\ [](connPc = "done" =>
          /\ dvConns = conns
          /\ Len(dvConns) = Len(connections)
          /\ \A d \in 1..Len(dvConns) :
               LET conn == connections[dvConns[d]]
               IN /\ { pair[1] : pair \in conn.options } = { "dvStatus", "dvSelected" }
                  /\ Cardinality(conn.options) = 2
                  /\ OptionValues(conn.options, "dvSelected")
                       = IF conn.name = selectedConn
                         THEN { "SELECTED" } ELSE { "NOTSELECTED" })
  /\ [][connPc # "idle" =>
          /\ DOMAIN connections' = DOMAIN connections
          /\ conns' = conns
          /\ \A c \in DOMAIN connections :
               /\ connections'[c].name = connections[c].name
               /\ connections'[c].description = connections[c].description]_vars

\* C12 witness: the call has returned two connections that both came with
\* options of their own: 'c1', selected, and 'C1', which differs from
\* selectedConn by case only and is not selected.
C12_Witness ==
  /\ connPc = "done"
  /\ selectedConn = "c1"
  /\ Len(dvConns) = 2
  /\ connections[dvConns[1]].name = "c1"
  /\ connections[dvConns[2]].name = "C1"
  /\ <<"dvSelected", "SELECTED">> \in connections[dvConns[1]].options
  /\ <<"dvSelected", "NOTSELECTED">> \in connections[dvConns[2]].options

\* ------------------------------------------------ claims on what the calls change
\* list is an initial part of longer.
IsPrefix(list, longer) ==
  Len(list) <= Len(longer) /\ SubSeq(longer, 1, Len(list)) = list

\* C13: no step of generateViewInfos or generateViewEditorStates changes a
\* SchemaNode, the caller's nodePath array, selectedViewNames or
\* existingViewNames; generateViewInfos only appends to the output list, and
\* generateViewEditorStates changes neither the ViewInfos nor their arrays.
C13_InputsUnchanged ==
  [][ /\ nodes' = nodes
      /\ phase # "idle" =>
           /\ arrays'[1] = arrays[1]
           /\ selectedViewNames' = selectedViewNames
           /\ existingViewNames' = existingViewNames
           /\ IsPrefix(viewInfos, viewInfos')
      /\ phase \in { "walked", "synth" } =>
           /\ viewInfos' = viewInfos
           /\ arrays' = arrays ]_vars

\* C13 witness: both calls have returned for a caller whose nodePath array and
\* name lists are not empty; ViewInfos were appended, one of them below the
\* root, and synthesized.
C13_Witness ==
  /\ phase = "done"
  /\ arrays[1] = << <<"d","b">> >>
  /\ selectedViewNames # << >> /\ existingViewNames # << >>
  /\ Len(viewInfos) >= 2
  /\ Len(editorStates) = Len(viewInfos)
  /\ Len(arrays[viewInfos[2].nodePath]) >= 3

\* ------------------------------------------- claims on synthesis then preview
\* The string holds neither '/' nor '='.
PlainName(str) == \A i \in 1..Len(str) : str[i] # "/" /\ str[i] # "="

\* C14 (as claimed): for a ViewInfo whose connectionName holds no '/' or '=' and
\* whose node path is a well-formed key=value path with last segment value n,
\* the synthesized source path is well-formed and getPreviewSql of the view
\* definition returns 'SELECT * FROM ' + lowercase(connectionName) +
\* 'schemamodel.' + n + ';'.
C14_PreviewOfSynthesizedView ==
  ( /\ phase = "done" /\ sqlPc = "done" /\ Len(viewInfos) = 1
    /\ PlainName(viewInfos[1].connectionName)
    /\ WellFormedPath(nodes[viewInfos[1].viewSourceNode].path) ) =>
    LET segments == Split(nodes[viewInfos[1].viewSourceNode].path, "/")
        n == ValueOfSegment(segments[Len(segments)])
    IN /\ WellFormedPath(sourcePaths[1])
       /\ sqlResult
            = [ kind |-> "return",
                value |-> SelectFrom(ToLowerCase(viewInfos[1].connectionName)
                                       \o <<"s","c","h","e","m","a","m","o","d","e","l",".">>
                                       \o n) ]
====
